---------------------------- MODULE Spec2Model ----------------------------
(***************************************************************************)
(* State-machine model of the EncryptedLearningTracker contract            *)
(* (src/backend/contracts/EncryptedLearningTracker.sol).                   *)
(*                                                                         *)
(* Every external function is one action.  A transaction either commits   *)
(* all of its writes or reverts; a reverted transaction leaves the ledger  *)
(* exactly as it was.  For every function, <function>Error gives the       *)
(* reason for which a call reverts in the current state ("" when it        *)
(* commits).  `receipt` holds the return value and the events of the most  *)
(* recent committed transaction.                                           *)
(***************************************************************************)
EXTENDS Integers, Sequences, FiniteSets, TLC

(***************************************************************************)
(* Bounds of the model.                                                    *)
(***************************************************************************)
MaxDay == 3          \* block.timestamp stays below (MaxDay + 1) days
MaxCheckIns == 3     \* checkIn calls per student, check-in tracker on its own
MaxJournalCheckIns == 2  \* checkIn calls, journal and tracker together
MaxRecords == 2      \* recordStudyData calls
MaxLedgerCourses == 1    \* createCourse calls, courses, scores and proofs together
MaxLedgerDay == 1        \* days that pass, courses, scores and proofs together
MaxSkills == 2       \* tokens minted
MaxSystemCalls == 2      \* committed calls that leave a trace in a log, whole ledger
MaxCallDepth == 2         \* generateSkillProof calls nested through the mint callback

(***************************************************************************)
(* Program constants.                                                      *)
(***************************************************************************)
DaySeconds == 86400

HalfDay == DaySeconds \div 2

Accounts == {"alice", "bob"}       \* externally owned accounts
Contracts == {"vault"}             \* a caller with code and no onERC721Received
Students == Accounts \cup Contracts
Hooks == {"hook"}                  \* a caller with code that implements onERC721Received
Identities == Students \cup Hooks
This == "this"                     \* address(this)
ZeroAddress == "0x0"               \* address(0)

Ciphers == {1, 2}                  \* external ciphertexts offered for scores and thresholds
CourseNames == {"algebra", "logic"}
CourseIds == 0..MaxLedgerCourses         \* ids in 0..courseCounter-1 exist, the rest do not
SkillIds == 0..MaxSkills
Days == 0..MaxDay
Buckets == {d * DaySeconds : d \in Days}
Stamps == {h * HalfDay : h \in 0..(2 * MaxDay + 1)}

VARIABLES
    blockTimestamp,       \* block.timestamp
    courses,              \* mapping(uint256 => Course)
    courseCounter,
    skillCounter,
    baseTokenURI,
    courseScores,         \* studentRecords[s].courseScores
    coursePassed,         \* studentRecords[s].coursePassed
    hasScore,             \* studentRecords[s].hasScore
    dailyStudyDays,       \* studentRecords[s].dailyStudyDays
    dailyStudyData,       \* studentRecords[s].dailyStudyData
    consecutiveCheckIns,  \* studentRecords[s].consecutiveCheckIns
    lastCheckInDay,       \* studentRecords[s].lastCheckInDay
    skillProofs,          \* mapping(address => mapping(uint256 => SkillProof))
    owners,               \* ERC721 token owners
    acl,                  \* decrypt authorizations granted by FHE.allow / FHE.allowThis
    receipt,              \* outcome of the most recent transaction
    checkInLog,           \* per student: block day of every CheckInRecorded event
    recordLog,            \* per student: bucket of every StudyDataRecorded event
    proofLog,             \* every SkillProofGenerated event, in commit order
    createLog,            \* the id returned by every committed createCourse, in order
    callStack             \* the generateSkillProof call suspended in onERC721Received

storage == <<courses, courseCounter, skillCounter, baseTokenURI, courseScores,
             coursePassed, hasScore, dailyStudyDays, dailyStudyData,
             consecutiveCheckIns, lastCheckInDay, skillProofs, owners, acl>>

eventLogs == <<checkInLog, recordLog, proofLog, createLog>>

vars == <<blockTimestamp, storage, receipt, eventLogs, callStack>>

(***************************************************************************)
(* Encrypted values.  A handle names a ciphertext; the contract never     *)
(* sees the plaintext.  Decrypt is what an authorized identity would      *)
(* obtain off-chain.                                                       *)
(***************************************************************************)
ZeroHandle == <<"zero", 0>>                   \* an euint32 slot never written

\* the input proof binds the external ciphertext c to the caller
FHE_fromExternal(sender, c) == <<"input", sender, c>>

FHE_asEuint32(v) == <<"trivial", v>>

FHE_ge(a, b) == <<"ge", a, b>>

FHE_select(cond, a, b) == <<"select", cond, a, b>>

\* an authorization that is never written
FHE_allowNobody(handle, who) == {}

FHE_allow(handle, who) == {<<handle, who>>}

FHE_allowThis(handle) == {<<handle, This>>}

PlainOf(c) == c                               \* plaintext carried by external ciphertext c

DecryptOperand(h) ==
    CASE h[1] = "zero"    -> 0
      [] h[1] = "input"   -> PlainOf(h[3])
      [] h[1] = "trivial" -> h[2]

Decrypt(h) ==
    IF h[1] = "select"
    THEN IF DecryptOperand(h[2][2]) >= DecryptOperand(h[2][3])
         THEN DecryptOperand(h[3]) ELSE DecryptOperand(h[4])
    ELSE DecryptOperand(h)

(***************************************************************************)
(* Transaction outcomes and events.                                        *)
(***************************************************************************)
Event(name, student, id, arg, handle) ==
    [name |-> name, student |-> student, id |-> id, arg |-> arg, handle |-> handle]

\* a call that commits without emitting
SuccessSilent(ret, logs) == [ret |-> ret, logs |-> <<>>]

Success(ret, logs) == [ret |-> ret, logs |-> logs]

NoReceipt == [ret |-> 0, logs |-> <<>>]

\* a failure that keeps an attempted increment of the course counter
RevertedAfterIncrement ==
    /\ courseCounter' = courseCounter + 1
    /\ UNCHANGED <<blockTimestamp, courses, skillCounter, baseTokenURI, courseScores,
                   coursePassed, hasScore, dailyStudyDays, dailyStudyData,
                   consecutiveCheckIns, lastCheckInDay, skillProofs, owners, acl,
                   receipt, eventLogs, callStack>>

Reverted == UNCHANGED vars

NoCourse == [name |-> "", threshold |-> ZeroHandle, exists |-> FALSE]

NoStudyData == [studyTime |-> ZeroHandle, focusLevel |-> ZeroHandle, exists |-> FALSE]

NoProof == [courseId |-> 0, timestamp |-> 0, exists |-> FALSE]

Init ==
    /\ blockTimestamp = HalfDay
    /\ courses = [c \in CourseIds |-> NoCourse]
    /\ courseCounter = 0
    /\ skillCounter = 0
    /\ baseTokenURI = ""
    /\ courseScores = [s \in Identities |-> [c \in CourseIds |-> ZeroHandle]]
    /\ coursePassed = [s \in Identities |-> [c \in CourseIds |-> ZeroHandle]]
    /\ hasScore = [s \in Identities |-> [c \in CourseIds |-> FALSE]]
    /\ dailyStudyDays = [s \in Identities |-> <<>>]
    /\ dailyStudyData = [s \in Identities |-> [b \in Stamps |-> NoStudyData]]
    /\ consecutiveCheckIns = [s \in Identities |-> 0]
    /\ lastCheckInDay = [s \in Identities |-> 0]
    /\ skillProofs = [s \in Identities |-> [k \in SkillIds |-> NoProof]]
    /\ owners = [k \in SkillIds |-> ZeroAddress]
    /\ acl = {}
    /\ receipt = NoReceipt
    /\ checkInLog = [s \in Identities |-> <<>>]
    /\ recordLog = [s \in Identities |-> <<>>]
    /\ proofLog = <<>>
    /\ createLog = <<>>
    /\ callStack = <<>>

(***************************************************************************)
(* Time: the substrate advances block.timestamp between transactions.     *)
(***************************************************************************)
\* a day number that is rounded up
CurrentDayCeil(t) == t \div DaySeconds + 1

CurrentDay(t) == t \div DaySeconds

\* a bucket that keeps the time of day
DayBucketIdentity(t) == t

DayBucket(t) == (t \div DaySeconds) * DaySeconds

Tick(d) ==
    /\ d > 0
    /\ CurrentDay(blockTimestamp + d) <= MaxDay
    /\ blockTimestamp' = blockTimestamp + d
    /\ UNCHANGED <<storage, receipt, eventLogs, callStack>>

(***************************************************************************)
(* Course registry.                                                        *)
(***************************************************************************)
\* the modifier left out
courseExistsUnchecked(courseId) == TRUE

courseExists(courseId) == courses[courseId].exists

\* the counter left as it was
CourseCounterKept(k) == k

\* courseCounter++ on a uint256 far from its maximum
CourseCounterNext(k) == k + 1

createCourseError(proofOk) == IF ~proofOk THEN "Invalid input proof" ELSE ""

createCourse(sender, courseName, c, proofOk) ==
    IF createCourseError(proofOk) # "" THEN Reverted
    ELSE
    LET encryptedThreshold == FHE_fromExternal(sender, c)
        courseId == courseCounter
    IN  /\ acl' = acl \cup {<<encryptedThreshold, This>>}
        /\ courses' = [courses EXCEPT ![courseId] =
                [name |-> courseName, threshold |-> encryptedThreshold, exists |-> TRUE]]
        /\ courseCounter' = CourseCounterNext(courseCounter)
        /\ receipt' = Success(courseId, <<>>)
        /\ createLog' = Append(createLog, courseId)
        /\ UNCHANGED <<skillCounter, baseTokenURI, courseScores, coursePassed, hasScore,
                       dailyStudyDays, dailyStudyData, consecutiveCheckIns,
                       lastCheckInDay, skillProofs, owners, checkInLog, recordLog,
                       proofLog, blockTimestamp, callStack>>

\* getCourse has no modifier and no require
getCourseError(courseId) == ""

getCourse(courseId) ==
    <<courses[courseId].name, courses[courseId].threshold, courses[courseId].exists>>

(***************************************************************************)
(* Score ledger.                                                           *)
(***************************************************************************)
\* the comparison with its operands exchanged
PassedHandleSwapped(encryptedScore, threshold) ==
    FHE_select(FHE_ge(threshold, encryptedScore), FHE_asEuint32(1), FHE_asEuint32(0))

PassedHandle(encryptedScore, threshold) ==
    FHE_select(FHE_ge(encryptedScore, threshold), FHE_asEuint32(1), FHE_asEuint32(0))

uploadScoreError(courseId, proofOk) ==
    IF ~courseExists(courseId) THEN "Course does not exist"
    ELSE IF ~proofOk THEN "Invalid input proof"
    ELSE ""

\* a ledger that keeps the first score of a student for a course
uploadScoreKeepsFirst(s, courseId, c, proofOk) ==
    IF uploadScoreError(courseId, proofOk) # "" THEN Reverted
    ELSE
    LET encryptedScore == IF hasScore[s][courseId] THEN courseScores[s][courseId]
                          ELSE FHE_fromExternal(s, c)
        isPassed == PassedHandle(encryptedScore, courses[courseId].threshold)
    IN  /\ courseScores' = [courseScores EXCEPT ![s][courseId] = encryptedScore]
        /\ hasScore' = [hasScore EXCEPT ![s][courseId] = TRUE]
        /\ coursePassed' = [coursePassed EXCEPT ![s][courseId] = isPassed]
        /\ acl' = acl \cup FHE_allowThis(isPassed) \cup FHE_allow(isPassed, s)
                       \cup FHE_allowThis(encryptedScore) \cup FHE_allow(encryptedScore, s)
        /\ receipt' = Success(0, <<Event("ScoreUploaded", s, courseId, 0, encryptedScore)>>)
        /\ UNCHANGED <<courses, courseCounter, skillCounter, baseTokenURI,
                       dailyStudyDays, dailyStudyData, consecutiveCheckIns,
                       lastCheckInDay, skillProofs, owners, eventLogs,
                       blockTimestamp, callStack>>

uploadScore(s, courseId, c, proofOk) ==
    IF uploadScoreError(courseId, proofOk) # "" THEN Reverted
    ELSE
    LET encryptedScore == FHE_fromExternal(s, c)
        isPassed == PassedHandle(encryptedScore, courses[courseId].threshold)
    IN  /\ courseScores' = [courseScores EXCEPT ![s][courseId] = encryptedScore]
        /\ hasScore' = [hasScore EXCEPT ![s][courseId] = TRUE]
        /\ coursePassed' = [coursePassed EXCEPT ![s][courseId] = isPassed]
        /\ acl' = acl \cup FHE_allowThis(isPassed) \cup FHE_allow(isPassed, s)
                       \cup FHE_allowThis(encryptedScore) \cup FHE_allow(encryptedScore, s)
        /\ receipt' = Success(0, <<Event("ScoreUploaded", s, courseId, 0, encryptedScore)>>)
        /\ UNCHANGED <<courses, courseCounter, skillCounter, baseTokenURI,
                       dailyStudyDays, dailyStudyData, consecutiveCheckIns,
                       lastCheckInDay, skillProofs, owners, eventLogs,
                       blockTimestamp, callStack>>

\* the modifier left out
getScoreUnchecked(courseId) == ""

getScoreError(courseId) ==
    IF ~courseExists(courseId) THEN "Course does not exist" ELSE ""

getScore(student, courseId) ==
    <<courseScores[student][courseId], coursePassed[student][courseId]>>

(***************************************************************************)
(* Proof tokens.  The contract is an ERC721: _safeMint, ownerOf and        *)
(* transferFrom are the inherited ones.                                    *)
(***************************************************************************)
ownerOf(tokenId) == owners[tokenId]

\* a mint that does not look whether the token exists
SafeMintErrorUnguarded(to, tokenId) ==
    IF to = ZeroAddress THEN "ERC721InvalidReceiver"
    ELSE IF to \in Contracts THEN "ERC721InvalidReceiver"
    ELSE ""

\* ERC721._safeMint(to, tokenId): why it reverts, "" when it does not
SafeMintError(to, tokenId) ==
    IF to = ZeroAddress THEN "ERC721InvalidReceiver"
    ELSE IF ownerOf(tokenId) # ZeroAddress THEN "ERC721InvalidSender"
    ELSE IF to \in Contracts THEN "ERC721InvalidReceiver"
    ELSE ""

\* no eligibility check at all
HasUploadedUnchecked(s, courseId) == TRUE

\* eligibility that also asks for a passing result
HasUploadedAndPassed(s, courseId) ==
    hasScore[s][courseId] /\ Decrypt(coursePassed[s][courseId]) = 1

HasUploaded(s, courseId) == hasScore[s][courseId]

\* proof metadata keyed by skillId alone
RecordProofForAll(s, skillId, courseId) ==
    [st \in Students |->
        [skillProofs[st] EXCEPT ![skillId] =
            [courseId |-> courseId, timestamp |-> blockTimestamp, exists |-> TRUE]]]

RecordProof(s, skillId, courseId) ==
    [skillProofs EXCEPT ![s][skillId] =
        [courseId |-> courseId, timestamp |-> blockTimestamp, exists |-> TRUE]]

\* the counter left as it was
SkillCounterKept(k) == k

\* unchecked { skillCounter++; } on a uint256 far from its maximum
SkillCounterNext(k) == k + 1

generateSkillProofError(s, courseId) ==
    IF ~courseExists(courseId) THEN "Course does not exist"
    ELSE IF ~HasUploaded(s, courseId) THEN "Score not uploaded"
    ELSE SafeMintError(s, skillCounter)

generateSkillProof(s, courseId) ==
    IF generateSkillProofError(s, courseId) # "" THEN Reverted
    ELSE
    LET skillId == skillCounter
    IN  /\ owners' = [owners EXCEPT ![skillId] = s]
        /\ skillProofs' = RecordProof(s, skillId, courseId)
        /\ skillCounter' = SkillCounterNext(skillCounter)
        /\ receipt' = Success(skillId,
                <<Event("Transfer", s, skillId, 0, ZeroHandle),
                  Event("SkillProofGenerated", s, skillId, courseId, ZeroHandle)>>)
        /\ proofLog' = Append(proofLog,
                Event("SkillProofGenerated", s, skillId, courseId, ZeroHandle))
        /\ UNCHANGED <<courses, courseCounter, baseTokenURI, courseScores, coursePassed,
                       hasScore, dailyStudyDays, dailyStudyData, consecutiveCheckIns,
                       lastCheckInDay, acl, checkInLog, recordLog, createLog,
                       blockTimestamp, callStack>>

\* what a callback of the mint can change in the ledger, as it was when the
\* call began
Saved ==
    [owners |-> owners, skillProofs |-> skillProofs, skillCounter |-> skillCounter,
     baseTokenURI |-> baseTokenURI, receipt |-> receipt, proofLog |-> proofLog]

\* generateSkillProof of a caller with code, up to the point where _safeMint
\* has written the owner and calls onERC721Received of the caller
generateSkillProofEnter(s, courseId) ==
    IF generateSkillProofError(s, courseId) # "" THEN Reverted
    ELSE
    LET skillId == skillCounter
    IN  /\ owners' = [owners EXCEPT ![skillId] = s]
        /\ callStack' = Append(callStack,
                [student |-> s, courseId |-> courseId, skillId |-> skillId,
                 saved |-> Saved])
        /\ UNCHANGED <<courses, courseCounter, skillCounter, baseTokenURI, courseScores,
                       coursePassed, hasScore, dailyStudyDays, dailyStudyData,
                       consecutiveCheckIns, lastCheckInDay, skillProofs, acl, receipt,
                       eventLogs, blockTimestamp>>

\* onERC721Received has returned its selector: the rest of generateSkillProof
generateSkillProofResume ==
    /\ callStack # <<>>
    /\ LET frame == callStack[Len(callStack)]
       IN  /\ skillProofs' = RecordProof(frame.student, frame.skillId, frame.courseId)
           /\ skillCounter' = SkillCounterNext(skillCounter)
           /\ receipt' = Success(frame.skillId,
                   <<Event("Transfer", frame.student, frame.skillId, 0, ZeroHandle),
                     Event("SkillProofGenerated", frame.student, frame.skillId,
                           frame.courseId, ZeroHandle)>>)
           /\ proofLog' = Append(proofLog,
                   Event("SkillProofGenerated", frame.student, frame.skillId,
                         frame.courseId, ZeroHandle))
    /\ callStack' = SubSeq(callStack, 1, Len(callStack) - 1)
    /\ UNCHANGED <<courses, courseCounter, baseTokenURI, courseScores, coursePassed,
                   hasScore, dailyStudyDays, dailyStudyData, consecutiveCheckIns,
                   lastCheckInDay, owners, acl, checkInLog, recordLog, createLog,
                   blockTimestamp>>

\* onERC721Received has reverted, or returned something else: _safeMint
\* reverts and the call is undone with everything done inside it
generateSkillProofUnwind ==
    /\ callStack # <<>>
    /\ LET saved == callStack[Len(callStack)].saved
       IN  /\ owners' = saved.owners
           /\ skillProofs' = saved.skillProofs
           /\ skillCounter' = saved.skillCounter
           /\ baseTokenURI' = saved.baseTokenURI
           /\ receipt' = saved.receipt
           /\ proofLog' = saved.proofLog
    /\ callStack' = SubSeq(callStack, 1, Len(callStack) - 1)
    /\ UNCHANGED <<courses, courseCounter, courseScores, coursePassed, hasScore,
                   dailyStudyDays, dailyStudyData, consecutiveCheckIns, lastCheckInDay,
                   acl, checkInLog, recordLog, createLog, blockTimestamp>>

getSkillProofError(student, skillId) == ""

getSkillProof(student, skillId) ==
    <<skillProofs[student][skillId].courseId,
      skillProofs[student][skillId].timestamp,
      skillProofs[student][skillId].exists>>

\* ERC721.transferFrom(from, to, tokenId) sent by the owner of the token
transferFromError(sender, from, to, tokenId) ==
    IF to = ZeroAddress THEN "ERC721InvalidReceiver"
    ELSE IF ownerOf(tokenId) = ZeroAddress THEN "ERC721NonexistentToken"
    ELSE IF sender # ownerOf(tokenId) THEN "ERC721InsufficientApproval"
    ELSE IF from # ownerOf(tokenId) THEN "ERC721IncorrectOwner"
    ELSE ""

transferFrom(sender, from, to, tokenId) ==
    IF transferFromError(sender, from, to, tokenId) # "" THEN Reverted
    ELSE
    /\ owners' = [owners EXCEPT ![tokenId] = to]
    /\ receipt' = Success(0, <<Event("Transfer", to, tokenId, 0, ZeroHandle)>>)
    /\ UNCHANGED <<courses, courseCounter, skillCounter, baseTokenURI, courseScores,
                   coursePassed, hasScore, dailyStudyDays, dailyStudyData,
                   consecutiveCheckIns, lastCheckInDay, skillProofs, acl, eventLogs,
                   blockTimestamp, callStack>>

setBaseURIError(sender) == ""

setBaseURI(newBaseURI) ==
    /\ baseTokenURI' = newBaseURI
    /\ receipt' = Success(0, <<>>)
    /\ UNCHANGED <<courses, courseCounter, skillCounter, courseScores, coursePassed,
                   hasScore, dailyStudyDays, dailyStudyData, consecutiveCheckIns,
                   lastCheckInDay, skillProofs, owners, acl, eventLogs,
                   blockTimestamp, callStack>>

\* the require left out
tokenURIUnchecked(tokenId) == ""

\* the token id left out of the URI
tokenURIBaseOnly(tokenId) == baseTokenURI

tokenURIError(tokenId) ==
    IF ownerOf(tokenId) = ZeroAddress THEN "Nonexistent token" ELSE ""

tokenURI(tokenId) ==
    IF baseTokenURI = "" THEN "" ELSE baseTokenURI \o ToString(tokenId)

(***************************************************************************)
(* Check-in.                                                               *)
(***************************************************************************)
IsNewDay(last, currentDay) == last = 0 \/ last < currentDay

\* a streak that forgets the check-in of the day before
StreakOnlyStarts(last, currentDay) == last = 0

\* a streak that survives skipped days
StreakSurvivesGap(last, currentDay) == last = 0 \/ last <= currentDay - 1

StreakContinues(last, currentDay) == last = 0 \/ last = currentDay - 1

\* currentDay - 1 is evaluated in checked uint256 arithmetic, and only when
\* the left operand of || is false
UnderflowsEager(last, currentDay) == currentDay - 1 < 0

Underflows(last, currentDay) == last # 0 /\ currentDay - 1 < 0

\* an entry that is not marked as existing
CheckInEntryUnmarked(encryptedStudyTime) ==
    [studyTime |-> encryptedStudyTime, focusLevel |-> FHE_asEuint32(0), exists |-> FALSE]

CheckInEntry(encryptedStudyTime) ==
    [studyTime |-> encryptedStudyTime, focusLevel |-> FHE_asEuint32(0), exists |-> TRUE]

checkInError(s, proofOk) ==
    IF ~proofOk THEN "Invalid input proof"
    ELSE IF IsNewDay(lastCheckInDay[s], CurrentDay(blockTimestamp))
            /\ Underflows(lastCheckInDay[s], CurrentDay(blockTimestamp))
         THEN "Panic(0x11)"
    ELSE ""

checkIn(s, c, proofOk) ==
    IF checkInError(s, proofOk) # "" THEN Reverted
    ELSE
    LET encryptedStudyTime == FHE_fromExternal(s, c)
        currentDay == CurrentDay(blockTimestamp)
        last == lastCheckInDay[s]
        dayTimestamp == currentDay * DaySeconds
    IN  /\ IF IsNewDay(last, currentDay)
           THEN /\ consecutiveCheckIns' =
                     [consecutiveCheckIns EXCEPT ![s] =
                         IF StreakContinues(last, currentDay) THEN @ + 1 ELSE 1]
                /\ lastCheckInDay' = [lastCheckInDay EXCEPT ![s] = currentDay]
                /\ dailyStudyDays' =
                     [dailyStudyDays EXCEPT ![s] =
                         IF ~dailyStudyData[s][dayTimestamp].exists
                         THEN Append(@, dayTimestamp) ELSE @]
                /\ dailyStudyData' =
                     [dailyStudyData EXCEPT ![s][dayTimestamp] =
                         CheckInEntry(encryptedStudyTime)]
                /\ acl' = acl \cup FHE_allowThis(encryptedStudyTime)
                               \cup FHE_allow(encryptedStudyTime, s)
           ELSE UNCHANGED <<consecutiveCheckIns, lastCheckInDay, dailyStudyDays,
                            dailyStudyData, acl>>
        /\ receipt' = Success(consecutiveCheckIns'[s],
                 <<Event("CheckInRecorded", s, consecutiveCheckIns'[s], 0, ZeroHandle)>>)
        /\ checkInLog' = [checkInLog EXCEPT ![s] = Append(@, currentDay)]
        /\ UNCHANGED <<courses, courseCounter, skillCounter, baseTokenURI,
                       courseScores, coursePassed, hasScore, skillProofs, owners,
                       recordLog, proofLog, createLog, blockTimestamp, callStack>>

getCheckInStatsError(student) == ""

getCheckInStats(student) == <<consecutiveCheckIns[student], lastCheckInDay[student]>>

(***************************************************************************)
(* Study journal.                                                          *)
(***************************************************************************)
recordStudyDataError(studyOk, focusOk) ==
    IF ~studyOk \/ ~focusOk THEN "Invalid input proof" ELSE ""

recordStudyData(s, timestamp, cStudy, studyOk, cFocus, focusOk) ==
    /\ IF recordStudyDataError(studyOk, focusOk) # "" THEN Reverted
       ELSE
       LET encryptedStudyTime == FHE_fromExternal(s, cStudy)
           encryptedFocusLevel == FHE_fromExternal(s, cFocus)
           dayTimestamp == DayBucket(timestamp)
       IN  /\ dailyStudyDays' =
                [dailyStudyDays EXCEPT ![s] =
                    IF ~dailyStudyData[s][dayTimestamp].exists
                    THEN Append(@, dayTimestamp) ELSE @]
           /\ dailyStudyData' =
                [dailyStudyData EXCEPT ![s][dayTimestamp] =
                    [studyTime |-> encryptedStudyTime,
                     focusLevel |-> encryptedFocusLevel,
                     exists |-> TRUE]]
           /\ acl' = acl \cup FHE_allowThis(encryptedStudyTime)
                          \cup FHE_allow(encryptedStudyTime, s)
                          \cup FHE_allowThis(encryptedFocusLevel)
                          \cup FHE_allow(encryptedFocusLevel, s)
           /\ receipt' = Success(0,
                    <<Event("StudyDataRecorded", s, dayTimestamp, 0, ZeroHandle)>>)
           /\ recordLog' = [recordLog EXCEPT ![s] = Append(@, dayTimestamp)]
           /\ UNCHANGED <<courses, courseCounter, skillCounter, baseTokenURI,
                          courseScores, coursePassed, hasScore, consecutiveCheckIns,
                          lastCheckInDay, skillProofs, owners, checkInLog, proofLog,
                          createLog, blockTimestamp, callStack>>

getStudyDataError(student, timestamp) == ""

getStudyData(student, timestamp) ==
    LET data == dailyStudyData[student][DayBucket(timestamp)]
    IN  <<data.studyTime, data.focusLevel, data.exists>>

getStudyDaysError(student) == ""

getStudyDays(student) == dailyStudyDays[student]

(***************************************************************************)
(* The client encrypts anew for every call, so every call carries a       *)
(* ciphertext the ledger has not seen before.                              *)
(***************************************************************************)
FreshCipher(s) == Len(checkInLog[s]) + 2 * Len(recordLog[s]) + 1

(***************************************************************************)
(* The check-in tracker on its own, for every account.                     *)
(***************************************************************************)
JournalTick == \E d \in {DaySeconds, 2 * DaySeconds} : Tick(d)

CheckInCall ==
    \E s \in Accounts, proofOk \in BOOLEAN :
        /\ Len(checkInLog[s]) < MaxCheckIns
        /\ checkIn(s, FreshCipher(s), proofOk)

NextCheckIn == JournalTick \/ CheckInCall

SpecCheckIn == Init /\ [][NextCheckIn]_vars

(***************************************************************************)
(* The study journal together with the check-in tracker, for one account.  *)
(***************************************************************************)
JournalCheckIn ==
    \E proofOk \in BOOLEAN :
        /\ Len(checkInLog["alice"]) < MaxJournalCheckIns
        /\ checkIn("alice", FreshCipher("alice"), proofOk)

JournalRecord ==
    \E t \in Stamps, studyOk \in BOOLEAN, focusOk \in BOOLEAN :
        /\ Len(recordLog["alice"]) < MaxRecords
        /\ recordStudyData("alice", t, FreshCipher("alice"), studyOk,
                           FreshCipher("alice") + 1, focusOk)

NextJournal == JournalTick \/ JournalCheckIn \/ JournalRecord

SpecJournal == Init /\ [][NextJournal]_vars

(***************************************************************************)
(* Courses, scores and proof tokens on their own.                          *)
(***************************************************************************)
LedgerTick == CurrentDay(blockTimestamp) < MaxLedgerDay /\ Tick(DaySeconds)

LedgerCreate ==
    \E proofOk \in BOOLEAN :
        /\ courseCounter < MaxLedgerCourses
        /\ createCourse("alice", "algebra", 2, proofOk)

\* alice uploads a score below the threshold of the course, the others a
\* score that meets it
LedgerScores(s) == IF s = "alice" THEN {1} ELSE {2}

\* to the first course, or to an id that is never created
LedgerUpload ==
    \E s \in Students, courseId \in {0, MaxLedgerCourses}, proofOk \in BOOLEAN :
        \E c \in LedgerScores(s) : uploadScore(s, courseId, c, proofOk)

LedgerGenerate ==
    \E s \in Students, courseId \in CourseIds :
        /\ skillCounter < MaxSkills
        /\ generateSkillProof(s, courseId)

LedgerTransfer ==
    \E sender \in Accounts, to \in Accounts, tokenId \in SkillIds :
        transferFrom(sender, sender, to, tokenId)

NextLedger ==
    \/ LedgerTick
    \/ LedgerCreate
    \/ LedgerUpload
    \/ LedgerGenerate
    \/ LedgerTransfer

SpecLedger == Init /\ [][NextLedger]_vars

(***************************************************************************)
(* Courses and scores on their own: every threshold, every score, two      *)
(* accounts.                                                               *)
(***************************************************************************)
ScoresCreate ==
    \E sender \in Accounts, c \in Ciphers, proofOk \in BOOLEAN :
        /\ courseCounter < MaxLedgerCourses
        /\ createCourse(sender, "algebra", c, proofOk)

\* to the first course, or to an id that is never created
ScoresUpload ==
    \E s \in Accounts, courseId \in {0, MaxLedgerCourses}, c \in Ciphers,
       proofOk \in BOOLEAN :
        uploadScore(s, courseId, c, proofOk)

NextScores == ScoresCreate \/ ScoresUpload

SpecScores == Init /\ [][NextScores]_vars

(***************************************************************************)
(* The course registry: every caller, every name, every threshold, and bob *)
(* uploading scores to the courses.                                        *)
(***************************************************************************)
RegistryCreate ==
    \E sender \in Students, n \in CourseNames, c \in Ciphers, proofOk \in BOOLEAN :
        /\ courseCounter <= MaxLedgerCourses
        /\ createCourse(sender, n, c, proofOk)

RegistryUpload ==
    \E courseId \in CourseIds, proofOk \in BOOLEAN :
        uploadScore("bob", courseId, 2, proofOk)

NextRegistry == RegistryCreate \/ RegistryUpload

SpecRegistry == Init /\ [][NextRegistry]_vars

(***************************************************************************)
(* The proof tokens with a caller whose code receives the mint callback:   *)
(* between TokensEnter and the end of the call only that caller acts.      *)
(***************************************************************************)
BaseURIs == {"", "ipfs://b/"}

TokensCreate ==
    /\ callStack = <<>>
    /\ courseCounter < MaxLedgerCourses
    /\ createCourse("alice", "algebra", 2, TRUE)

\* to the first course
TokensUpload ==
    \E s \in {"alice", "hook"} :
        /\ callStack = <<>>
        /\ ~hasScore[s][0]
        /\ uploadScore(s, 0, 2, TRUE)

TokensGenerate ==
    \E s \in Students, courseId \in CourseIds :
        /\ callStack = <<>>
        /\ skillCounter < MaxSkills
        /\ generateSkillProof(s, courseId)

\* a call of the hook, from a transaction of its own or from its callback
TokensEnter ==
    \E s \in Hooks, courseId \in CourseIds :
        /\ Len(callStack) < MaxCallDepth
        /\ skillCounter + Len(callStack) < MaxSkills
        /\ generateSkillProofEnter(s, courseId)

TokensResume == generateSkillProofResume

TokensUnwind == generateSkillProofUnwind

\* by alice between calls, by the hook inside its callback
TokensTransfer ==
    \E sender \in IF callStack = <<>> THEN {"alice"} ELSE Hooks :
        \E to \in ({"alice"} \cup Hooks) \ {sender}, tokenId \in SkillIds :
            transferFrom(sender, sender, to, tokenId)

TokensSetBaseURI ==
    \E sender \in IF callStack = <<>> THEN Students ELSE Hooks, u \in BaseURIs :
        /\ setBaseURIError(sender) = ""
        /\ u # baseTokenURI
        /\ setBaseURI(u)

NextTokens ==
    \/ TokensCreate
    \/ TokensUpload
    \/ TokensGenerate
    \/ TokensEnter
    \/ TokensResume
    \/ TokensUnwind
    \/ TokensTransfer
    \/ TokensSetBaseURI

SpecTokens == Init /\ [][NextTokens]_vars

(***************************************************************************)
(* The whole ledger: every function, two accounts and a contract caller.   *)
(***************************************************************************)
\* committed createCourse, generateSkillProof, checkIn and recordStudyData calls
SystemCalls ==
    Len(createLog) + Len(proofLog) + Len(checkInLog["alice"]) + Len(checkInLog["bob"])
        + Len(recordLog["alice"]) + Len(recordLog["bob"])

SystemCreate == SystemCalls < MaxSystemCalls /\ LedgerCreate

SystemUpload ==
    \E s \in Accounts, courseId \in {0, MaxLedgerCourses}, proofOk \in BOOLEAN :
        \E c \in LedgerScores(s) : uploadScore(s, courseId, c, proofOk)

SystemGenerate ==
    \E s \in Students, courseId \in CourseIds :
        /\ SystemCalls < MaxSystemCalls
        /\ skillCounter < MaxSkills
        /\ generateSkillProof(s, courseId)

SystemTransfer ==
    \E sender \in Accounts, tokenId \in SkillIds :
        \E to \in Accounts \ {sender} : transferFrom(sender, sender, to, tokenId)

SystemSetBaseURI == \E sender \in Accounts : setBaseURI("ipfs://proofs/")

SystemCheckIn ==
    \E s \in Accounts, proofOk \in BOOLEAN :
        /\ SystemCalls < MaxSystemCalls
        /\ checkIn(s, FreshCipher(s), proofOk)

\* the client sends the time of the call
SystemRecord ==
    \E s \in Accounts, studyOk \in BOOLEAN, focusOk \in BOOLEAN :
        /\ SystemCalls < MaxSystemCalls
        /\ recordStudyData(s, blockTimestamp, FreshCipher(s), studyOk,
                           FreshCipher(s) + 1, focusOk)

Next ==
    \/ LedgerTick
    \/ SystemCreate
    \/ SystemUpload
    \/ SystemGenerate
    \/ SystemTransfer
    \/ SystemSetBaseURI
    \/ SystemCheckIn
    \/ SystemRecord

Spec == Init /\ [][Next]_vars

(***************************************************************************)
(* Claims about the check-in tracker.                                      *)
(***************************************************************************)
CheckInStep(s) == Len(checkInLog'[s]) = Len(checkInLog[s]) + 1

Today == CurrentDay(blockTimestamp)

CheckedInToday(s) == \E i \in DOMAIN checkInLog[s] : checkInLog[s][i] = Today

OnePerConsecutiveDay(log) ==
    /\ Len(log) > 0
    /\ \A i \in DOMAIN log : log[i] = log[1] + (i - 1)

\* C1: a checkIn call of a student who has already called checkIn during the
\* current day changes neither lastCheckInDay nor consecutiveCheckIns, so at
\* most one call per day and student changes them.
C1_OncePerDay ==
    [][\A s \in Accounts :
        (CheckInStep(s) /\ CheckedInToday(s)) =>
            /\ lastCheckInDay'[s] = lastCheckInDay[s]
            /\ consecutiveCheckIns'[s] = consecutiveCheckIns[s]]_vars

\* C1 from day 1 on: what the code does guarantee.
C1_FromDayOne ==
    [][\A s \in Accounts :
        (CheckInStep(s) /\ CheckedInToday(s) /\ Today >= 1) =>
            /\ lastCheckInDay'[s] = lastCheckInDay[s]
            /\ consecutiveCheckIns'[s] = consecutiveCheckIns[s]]_vars

\* C2: after k check-ins of a student on k consecutive days, one per day and
\* none before, consecutiveCheckIns is k; and every checkIn call made with
\* lastCheckInDay = 0 or lastCheckInDay = currentDay - 1 adds exactly 1.
C2_StreakCounts ==
    /\ [](\A s \in Accounts :
            OnePerConsecutiveDay(checkInLog[s]) =>
                consecutiveCheckIns[s] = Len(checkInLog[s]))
    /\ [][\A s \in Accounts :
            (CheckInStep(s) /\ (lastCheckInDay[s] = 0 \/ lastCheckInDay[s] = Today - 1)) =>
                consecutiveCheckIns'[s] = consecutiveCheckIns[s] + 1]_vars

C2_Witness ==
    /\ checkInLog["alice"] = <<1, 2, 3>>
    /\ consecutiveCheckIns["alice"] = 3
    /\ checkInLog["bob"] = <<0, 1>>
    /\ consecutiveCheckIns["bob"] = 2

\* C3: a checkIn call whose previous call was on day L # 0 and which is made
\* on a day C > L + 1 leaves consecutiveCheckIns = 1 and lastCheckInDay = C.
C3_StreakResets ==
    [][\A s \in Accounts :
        (/\ CheckInStep(s)
         /\ Len(checkInLog[s]) > 0
         /\ checkInLog[s][Len(checkInLog[s])] # 0
         /\ Today > checkInLog[s][Len(checkInLog[s])] + 1) =>
            /\ consecutiveCheckIns'[s] = 1
            /\ lastCheckInDay'[s] = Today]_vars

C3_Witness ==
    /\ checkInLog["alice"] = <<0, 1, 3>>
    /\ consecutiveCheckIns["alice"] = 1
    /\ lastCheckInDay["alice"] = 3

(***************************************************************************)
(* Claims about the study journal.                                         *)
(***************************************************************************)
StoredHandles ==
    UNION {{dailyStudyData[s][b].studyTime, dailyStudyData[s][b].focusLevel} :
              s \in Accounts, b \in Buckets}

\* C4: a checkIn call of a student who has already checked in during the
\* current day changes nothing: not the two counters, not the day list, not
\* the day's entry, not the authorizations; its ciphertext is stored nowhere.
C4_SecondCheckInNoOp ==
    [][\A s \in Accounts :
        (CheckInStep(s) /\ CheckedInToday(s)) =>
            /\ UNCHANGED <<consecutiveCheckIns, lastCheckInDay, dailyStudyDays,
                           dailyStudyData, acl>>
            /\ FHE_fromExternal(s, FreshCipher(s)) \notin StoredHandles']_vars

\* C4 from day 1 on: what the code does guarantee.
C4_FromDayOne ==
    [][\A s \in Accounts :
        (CheckInStep(s) /\ CheckedInToday(s) /\ Today >= 1) =>
            /\ UNCHANGED <<consecutiveCheckIns, lastCheckInDay, dailyStudyDays,
                           dailyStudyData, acl>>
            /\ FHE_fromExternal(s, FreshCipher(s)) \notin StoredHandles']_vars

(***************************************************************************)
(* Claims about proof tokens and score uploads.                            *)
(***************************************************************************)
NeverCreated(courseId) == courseId >= courseCounter

ProofEvents(logs) == {i \in DOMAIN logs : logs[i].name = "SkillProofGenerated"}

\* C5, as claimed: generateSkillProof by a student without a score for the
\* course fails with "Score not uploaded", for every course id, created or not.
C5_AlwaysScoreNotUploaded ==
    \A s \in Students, c \in CourseIds :
        ~hasScore[s][c] => generateSkillProofError(s, c) = "Score not uploaded"

\* C5, amended: generateSkillProof by a student without a score for the course
\* fails and mints nothing, records no proof and leaves the counter alone, for
\* every course id; the error is "Score not uploaded" for a course that exists
\* and "Course does not exist" for an id that was never created.
C5_NoScoreNoProof ==
    /\ [](\A s \in Students, c \in CourseIds :
            ~hasScore[s][c] =>
                generateSkillProofError(s, c) =
                    IF NeverCreated(c) THEN "Course does not exist"
                    ELSE "Score not uploaded")
    /\ [][\A s \in Students, c \in CourseIds :
            (~hasScore[s][c] /\ generateSkillProof(s, c)) =>
                UNCHANGED <<owners, skillProofs, skillCounter, proofLog, receipt>>]_vars

C5_Witness ==
    /\ ~NeverCreated(0)
    /\ ~hasScore["alice"][0]
    /\ generateSkillProofError("alice", 0) = "Score not uploaded"
    /\ NeverCreated(MaxLedgerCourses)
    /\ generateSkillProofError("alice", MaxLedgerCourses) = "Course does not exist"
    /\ skillCounter = 1
    /\ ownerOf(0) = "bob"

C7_SkillIdsGlobal ==
    \A i \in DOMAIN proofLog :
        /\ proofLog[i].id = i - 1
        /\ getSkillProof(proofLog[i].student, i - 1)[3]
        /\ \A other \in Students \ {proofLog[i].student} :
                ~getSkillProof(other, i - 1)[3]

C7_Witness ==
    /\ Len(proofLog) = 2
    /\ proofLog[1].student = "bob"
    /\ proofLog[2].student = "alice"
    /\ getSkillProof("alice", 1)[3]
    /\ ~getSkillProof("alice", 0)[3]

\* C8: a generateSkillProof(courseId) call of s that succeeds at time t with
\* counter value k gives token k to s, records (courseId, t, true) under
\* (s, k), adds 1 to the counter, emits one SkillProofGenerated(s, k, courseId),
\* returns k, and changes no other token, proof record or student record.
C8_ProofEffects ==
    [][\A s \in Students, c \in CourseIds :
        (generateSkillProofError(s, c) = "" /\ generateSkillProof(s, c)) =>
            LET k == skillCounter IN
            /\ owners'[k] = s
            /\ \A j \in SkillIds \ {k} : owners'[j] = owners[j]
            /\ skillProofs'[s][k] =
                    [courseId |-> c, timestamp |-> blockTimestamp, exists |-> TRUE]
            /\ \A st \in Students, j \in SkillIds :
                    <<st, j>> # <<s, k>> => skillProofs'[st][j] = skillProofs[st][j]
            /\ skillCounter' = k + 1
            /\ Cardinality(ProofEvents(receipt'.logs)) = 1
            /\ \A i \in ProofEvents(receipt'.logs) :
                    receipt'.logs[i] = Event("SkillProofGenerated", s, k, c, ZeroHandle)
            /\ receipt'.ret = k
            /\ UNCHANGED <<courses, courseCounter, courseScores, coursePassed, hasScore,
                           acl, baseTokenURI>>]_vars

C8_Witness ==
    /\ skillCounter = 2
    /\ ownerOf(1) = "bob"
    /\ getSkillProof("bob", 1) = <<0, HalfDay + DaySeconds, TRUE>>
    /\ receipt.ret = 1

\* C9: a token minted to s stays with s: the owner of every token is the
\* student under whom its proof is recorded.
C9_NonTransferable ==
    \A s \in Students, k \in SkillIds :
        skillProofs[s][k].exists => ownerOf(k) = s

\* C10: uploadScore for a course id that was never created, or with an invalid
\* input proof, fails and leaves every score, pass/fail handle, hasScore flag
\* and authorization as it was and emits nothing.
C10_UploadFailsWhole ==
    /\ [](\A c \in CourseIds, ok \in BOOLEAN :
            (NeverCreated(c) \/ ~ok) => uploadScoreError(c, ok) # "")
    /\ [][(\E s \in Students, c \in CourseIds, ci \in Ciphers, ok \in BOOLEAN :
                (NeverCreated(c) \/ ~ok) /\ uploadScore(s, c, ci, ok)) =>
            UNCHANGED <<courseScores, coursePassed, hasScore, acl, receipt>>]_vars

C10_Witness ==
    /\ courseCounter = 1
    /\ uploadScoreError(MaxLedgerCourses, TRUE) = "Course does not exist"
    /\ uploadScoreError(0, FALSE) = "Invalid input proof"
    /\ uploadScoreError(0, TRUE) = ""
    /\ courseScores["alice"][0] = FHE_fromExternal("alice", 1)
    /\ courseScores["alice"][MaxLedgerCourses] = ZeroHandle

(***************************************************************************)
(* Claims about the score ledger.                                          *)
(***************************************************************************)
\* a committing uploadScore(c, ci) sent by s
UploadStep(s, c, ci) == uploadScoreError(c, TRUE) = "" /\ uploadScore(s, c, ci, TRUE)

C12_PassedIsComparison ==
    [][\A s \in Accounts, c \in CourseIds, ci \in Ciphers :
        UploadStep(s, c, ci) =>
            Decrypt(coursePassed'[s][c]) =
                IF PlainOf(ci) >= Decrypt(courses[c].threshold) THEN 1 ELSE 0]_vars

\* threshold 2: alice, who had uploaded 1 before, is at the threshold and
\* passes, bob is below it and fails
C12_Witness ==
    /\ Decrypt(courses[0].threshold) = 2
    /\ FHE_fromExternal("alice", 1) \in {g[1] : g \in acl}
    /\ Decrypt(courseScores["alice"][0]) = 2
    /\ Decrypt(coursePassed["alice"][0]) = 1
    /\ Decrypt(courseScores["bob"][0]) = 1
    /\ Decrypt(coursePassed["bob"][0]) = 0

\* C13: after a committing uploadScore of s the stored score handle and the
\* stored pass/fail handle are authorized for s and for the ledger, and the
\* call adds no authorization for anybody else or on any other handle.
C13_UploadAuthorizes ==
    [][\A s \in Accounts, c \in CourseIds, ci \in Ciphers :
        UploadStep(s, c, ci) =>
            /\ \A h \in {courseScores'[s][c], coursePassed'[s][c]} :
                    {<<h, s>>, <<h, This>>} \subseteq acl'
            /\ \A g \in acl' \ acl :
                    /\ g[1] \in {courseScores'[s][c], coursePassed'[s][c]}
                    /\ g[2] \in {s, This}]_vars

C13_Witness ==
    /\ hasScore["alice"][0]
    /\ hasScore["bob"][0]
    /\ <<courseScores["alice"][0], "alice">> \in acl
    /\ <<coursePassed["alice"][0], This>> \in acl
    /\ <<courseScores["alice"][0], "bob">> \notin acl
    /\ <<coursePassed["bob"][0], "alice">> \notin acl

(***************************************************************************)
(* Claims about the ledger as a whole.                                     *)
(***************************************************************************)
\* some state-mutating call that fails is being made
FailingCall ==
    \/ \E s \in Students, n \in CourseNames, c \in Ciphers :
            createCourseError(FALSE) # "" /\ createCourse(s, n, c, FALSE)
    \/ \E s \in Students, c \in CourseIds, ci \in Ciphers, ok \in BOOLEAN :
            uploadScoreError(c, ok) # "" /\ uploadScore(s, c, ci, ok)
    \/ \E s \in Students, c \in CourseIds :
            generateSkillProofError(s, c) # "" /\ generateSkillProof(s, c)
    \/ \E s \in Students, ok1 \in BOOLEAN, ok2 \in BOOLEAN :
            /\ recordStudyDataError(ok1, ok2) # ""
            /\ recordStudyData(s, blockTimestamp, FreshCipher(s), ok1,
                               FreshCipher(s) + 1, ok2)
    \/ \E s \in Students, ok \in BOOLEAN :
            checkInError(s, ok) # "" /\ checkIn(s, FreshCipher(s), ok)

\* C14: a createCourse, uploadScore, generateSkillProof, recordStudyData or
\* checkIn call with an invalid proof, for a missing course or without the
\* uploaded score fails, and a failing call leaves every field of the ledger,
\* both counters and the authorizations as they were and emits nothing.
C14_AbortsAreAtomic ==
    /\ [](/\ createCourseError(FALSE) # ""
          /\ checkInError("alice", FALSE) # ""
          /\ recordStudyDataError(FALSE, TRUE) # ""
          /\ recordStudyDataError(TRUE, FALSE) # ""
          /\ \A s \in Students, c \in CourseIds :
                /\ uploadScoreError(c, FALSE) # ""
                /\ NeverCreated(c) =>
                        uploadScoreError(c, TRUE) # "" /\ generateSkillProofError(s, c) # ""
                /\ ~hasScore[s][c] => generateSkillProofError(s, c) # "")
    /\ [][FailingCall => UNCHANGED <<storage, receipt, eventLogs>>]_vars

\* a course, a score, a token and a receipt exist, and calls of every kind
\* of failure can be made
C14_Witness ==
    /\ courseCounter = 1
    /\ skillCounter = 1
    /\ hasScore["alice"][0]
    /\ Len(receipt.logs) > 0
    /\ uploadScoreError(0, FALSE) = "Invalid input proof"
    /\ uploadScoreError(MaxLedgerCourses, TRUE) = "Course does not exist"
    /\ generateSkillProofError("bob", 0) = "Score not uploaded"
    /\ generateSkillProofError("alice", 0) = ""

\* a committing uploadScore, generateSkillProof, recordStudyData or checkIn
\* sent by a
CallBy(a) ==
    \/ \E c \in CourseIds, ci \in Ciphers : UploadStep(a, c, ci)
    \/ \E c \in CourseIds :
            generateSkillProofError(a, c) = "" /\ generateSkillProof(a, c)
    \/ recordStudyData(a, blockTimestamp, FreshCipher(a), TRUE, FreshCipher(a) + 1, TRUE)
    \/ checkInError(a, TRUE) = "" /\ checkIn(a, FreshCipher(a), TRUE)

StudentRecord(b) ==
    <<courseScores[b], coursePassed[b], hasScore[b], dailyStudyDays[b],
      dailyStudyData[b], consecutiveCheckIns[b], lastCheckInDay[b]>>

\* C15: an uploadScore, generateSkillProof, recordStudyData or checkIn call
\* of a changes the student record and the proof records of nobody but a,
\* and changes no course.
C15_CallerBounded ==
    [][\A a \in Students :
        CallBy(a) =>
            /\ \A b \in Students \ {a} :
                    /\ StudentRecord(b)' = StudentRecord(b)
                    /\ skillProofs'[b] = skillProofs[b]
            /\ courses' = courses]_vars

\* bob has checked in, and alice has uploaded a score after that
C15_Witness ==
    /\ consecutiveCheckIns["bob"] = 1
    /\ dailyStudyDays["bob"] # <<>>
    /\ hasScore["alice"][0]
    /\ Len(receipt.logs) = 1
    /\ receipt.logs[1].name = "ScoreUploaded"
    /\ receipt.logs[1].student = "alice"

(***************************************************************************)
(* Claims about the course registry.                                       *)
(***************************************************************************)
\* C16: the i-th committed createCourse call, counted from 0, returns id i,
\* whoever sends it: ids start at 0, go up by one and are never reused; a
\* failing createCourse leaves the counter alone.
C16_CourseIdsSequential ==
    /\ [](/\ Len(createLog) = courseCounter
          /\ \A i \in DOMAIN createLog : createLog[i] = i - 1)
    /\ [][(\E s \in Students, n \in CourseNames, c \in Ciphers :
                createCourse(s, n, c, FALSE)) =>
            UNCHANGED <<courseCounter, courses, createLog>>]_vars

\* two courses created by different callers
C16_Witness ==
    /\ createLog = <<0, 1>>
    /\ courses[0].threshold = FHE_fromExternal("bob", 1)
    /\ courses[1].threshold = FHE_fromExternal("alice", 2)
    /\ receipt.ret = 1

\* C17: a course that exists keeps its name, its threshold handle and
\* exists = true through every later step.
C17_CourseImmutable ==
    [][\A c \in CourseIds :
        getCourse(c)[3] => getCourse(c)' = getCourse(c)]_vars

\* two courses of the same name with different thresholds, and a score
\* uploaded to the first
C17_Witness ==
    /\ getCourse(0) = <<"logic", FHE_fromExternal("alice", 1), TRUE>>
    /\ getCourse(1) = <<"logic", FHE_fromExternal("alice", 2), TRUE>>
    /\ hasScore["bob"][0]

\* C18: for an id that was never created getScore fails with "Course does
\* not exist" while getCourse returns ("", zero handle, false); for a course
\* that exists getScore returns, and returns two zero handles for a student
\* without a score.
C18_LookupsDiffer ==
    \A c \in CourseIds :
        /\ getCourseError(c) = ""
        /\ NeverCreated(c) =>
                /\ getScoreError(c) = "Course does not exist"
                /\ getCourse(c) = <<"", ZeroHandle, FALSE>>
        /\ ~NeverCreated(c) =>
                /\ getScoreError(c) = ""
                /\ \A s \in Students :
                        ~hasScore[s][c] => getScore(s, c) = <<ZeroHandle, ZeroHandle>>

C18_Witness ==
    /\ ~NeverCreated(0)
    /\ NeverCreated(MaxLedgerCourses)
    /\ hasScore["alice"][0]
    /\ ~hasScore["bob"][0]
    /\ getScoreError(0) = ""
    /\ getScore("bob", 0) = <<ZeroHandle, ZeroHandle>>
    /\ getScore("alice", 0)[1] # ZeroHandle
    /\ getScoreError(MaxLedgerCourses) = "Course does not exist"
    /\ getCourse(MaxLedgerCourses) = <<"", ZeroHandle, FALSE>>

(***************************************************************************)
(* Claims about the read accessors.                                        *)
(***************************************************************************)
\* C19, as claimed: no read accessor fails, in any state and for any argument.
C19_ReadsNeverAbort ==
    /\ \A c \in CourseIds : getCourseError(c) = "" /\ getScoreError(c) = ""
    /\ \A k \in SkillIds : tokenURIError(k) = ""
    /\ \A s \in Students, k \in SkillIds : getSkillProofError(s, k) = ""
    /\ \A s \in Students, ts \in Stamps : getStudyDataError(s, ts) = ""
    /\ \A s \in Students : getStudyDaysError(s) = "" /\ getCheckInStatsError(s) = ""

\* C19, amended: getCourse, getSkillProof, getStudyData, getStudyDays and
\* getCheckInStats never fail and show absence by exists = false and zero
\* values; getScore fails exactly for the ids that were never created, and
\* tokenURI exactly for the tokens that were never minted.
C19_ReadsAbortOnlyOnUnknown ==
    /\ \A c \in CourseIds :
            /\ getCourseError(c) = ""
            /\ NeverCreated(c) => getCourse(c) = <<"", ZeroHandle, FALSE>>
            /\ getScoreError(c) = IF NeverCreated(c) THEN "Course does not exist" ELSE ""
    /\ \A k \in SkillIds :
            tokenURIError(k) = IF k >= skillCounter THEN "Nonexistent token" ELSE ""
    /\ \A s \in Students, k \in SkillIds :
            /\ getSkillProofError(s, k) = ""
            /\ k >= skillCounter => getSkillProof(s, k) = <<0, 0, FALSE>>
    /\ \A s \in Students, ts \in Stamps :
            /\ getStudyDataError(s, ts) = ""
            /\ ~getStudyData(s, ts)[3] =>
                    getStudyData(s, ts) = <<ZeroHandle, ZeroHandle, FALSE>>
    /\ \A s \in Students :
            /\ getStudyDaysError(s) = ""
            /\ getCheckInStatsError(s) = ""
            /\ checkInLog[s] = <<>> => getCheckInStats(s) = <<0, 0>>
            /\ checkInLog[s] = <<>> /\ recordLog[s] = <<>> => getStudyDays(s) = <<>>

\* token 0 is minted and has a URI, token 1 is not; course 0 exists, the last
\* id does not
C19_Witness ==
    /\ tokenURIError(0) = ""
    /\ tokenURI(0) = "ipfs://proofs/0"
    /\ tokenURIError(1) = "Nonexistent token"
    /\ getScoreError(0) = ""
    /\ getScoreError(MaxLedgerCourses) = "Course does not exist"
    /\ getSkillProof("alice", 0)[3]
    /\ ~getSkillProof("bob", 0)[3]

(***************************************************************************)
(* Claims about the day list of the study journal.                         *)
(***************************************************************************)
RecordStep(s) == Len(recordLog'[s]) = Len(recordLog[s]) + 1

NoDuplicates(list) ==
    \A i, j \in DOMAIN list : list[i] = list[j] => i = j

\* C20: a day bucket is listed at most once in dailyStudyDays, and is listed
\* exactly when it has an entry; after a committing recordStudyData, or a
\* state-changing checkIn, getStudyData of the bucket written returns the
\* handles of that call; and no other step changes an entry.
C20_BucketsOnceLatestWins ==
    /\ [](\A s \in Accounts :
            /\ NoDuplicates(getStudyDays(s))
            /\ \A b \in Buckets :
                    getStudyData(s, b)[3] <=>
                        \E i \in DOMAIN getStudyDays(s) : getStudyDays(s)[i] = b)
    /\ [][\A s \in Accounts :
            /\ RecordStep(s) =>
                    \A ts \in Stamps :
                        recordStudyData(s, ts, FreshCipher(s), TRUE,
                                        FreshCipher(s) + 1, TRUE) =>
                            getStudyData(s, ts)' =
                                <<FHE_fromExternal(s, FreshCipher(s)),
                                  FHE_fromExternal(s, FreshCipher(s) + 1), TRUE>>
            /\ (/\ CheckInStep(s)
                /\ checkIn(s, FreshCipher(s), TRUE)
                /\ lastCheckInDay'[s] # lastCheckInDay[s]) =>
                        getStudyData(s, blockTimestamp)' =
                            <<FHE_fromExternal(s, FreshCipher(s)), FHE_asEuint32(0), TRUE>>
            /\ dailyStudyData'[s] # dailyStudyData[s] =>
                    \/ \E ts \in Stamps :
                            recordStudyData(s, ts, FreshCipher(s), TRUE,
                                            FreshCipher(s) + 1, TRUE)
                    \/ checkIn(s, FreshCipher(s), TRUE)]_vars

\* two records and a check-in wrote the same bucket, the check-in last
C20_Witness ==
    /\ Len(recordLog["alice"]) = 2
    /\ recordLog["alice"][1] = recordLog["alice"][2]
    /\ checkInLog["alice"] = <<CurrentDay(recordLog["alice"][1])>>
    /\ getStudyDays("alice") = <<recordLog["alice"][1]>>
    /\ getStudyData("alice", recordLog["alice"][1])[2] = FHE_asEuint32(0)
    /\ recordLog["alice"][1] > 0

Listed(s, b) == \E i \in DOMAIN getStudyDays(s) : getStudyDays(s)[i] = b

\* C21: getStudyDays only grows, by one bucket appended at the end, and only
\* by a bucket that is not listed yet; a recordStudyData or checkIn that
\* writes a listed bucket leaves the list as it is.  The list is in the order
\* of the first writes, which need not be the order of the values.
C21_DaysAppendOnly ==
    [][\A s \in Accounts :
        /\ \/ getStudyDays(s)' = getStudyDays(s)
           \/ \E b \in Stamps :
                    ~Listed(s, b) /\ getStudyDays(s)' = Append(getStudyDays(s), b)
        /\ (RecordStep(s) /\ Listed(s, recordLog'[s][Len(recordLog'[s])])) =>
                getStudyDays(s)' = getStudyDays(s)
        /\ (CheckInStep(s) /\ Listed(s, Today * DaySeconds)) =>
                getStudyDays(s)' = getStudyDays(s)]_vars

\* day 2 was recorded first, day 1 came second by a check-in, and the
\* check-in of day 2 found its bucket listed
C21_Witness ==
    /\ getStudyDays("alice") = <<2 * DaySeconds, DaySeconds>>
    /\ recordLog["alice"] = <<2 * DaySeconds>>
    /\ checkInLog["alice"] = <<1, 2>>

\* C22: a checkIn that changes the caller's record sets lastCheckInDay to the
\* current day, leaves the entry of today's bucket as (converted input,
\* encrypted zero, true) whatever the entry held before, and adds exactly the
\* authorizations of the caller and of the ledger on the studyTime handle;
\* the encrypted zero is never authorized for anybody.
C22_CheckInUpserts ==
    /\ [](\A g \in acl : g[1] # FHE_asEuint32(0))
    /\ [][\A s \in Accounts :
            (CheckInStep(s) /\ storage' # storage) =>
                LET h == FHE_fromExternal(s, FreshCipher(s)) IN
                /\ lastCheckInDay'[s] = blockTimestamp \div DaySeconds
                /\ dailyStudyData'[s][(blockTimestamp \div DaySeconds) * DaySeconds] =
                        [studyTime |-> h, focusLevel |-> FHE_asEuint32(0), exists |-> TRUE]
                /\ acl' = acl \cup {<<h, s>>, <<h, This>>}
                /\ <<h, s>> \notin acl]_vars

\* the check-in of day 1 replaced the entry that recordStudyData had written
\* for day 1
C22_Witness ==
    /\ recordLog["alice"] = <<DaySeconds>>
    /\ checkInLog["alice"] = <<1>>
    /\ getStudyData("alice", DaySeconds) =
            <<FHE_fromExternal("alice", 3), FHE_asEuint32(0), TRUE>>
    /\ <<FHE_fromExternal("alice", 2), "alice">> \in acl
    /\ <<FHE_fromExternal("alice", 3), This>> \in acl

\* C23: every committing checkIn, state-changing or not, returns the caller's
\* consecutiveCheckIns as stored after the call and emits exactly one
\* CheckInRecorded(caller, that value); getCheckInStats read right after the
\* call gives the returned value.
C23_CheckInReturnsStored ==
    [][\A s \in Accounts :
        CheckInStep(s) =>
            /\ receipt'.ret = consecutiveCheckIns'[s]
            /\ receipt'.logs =
                    <<Event("CheckInRecorded", s, consecutiveCheckIns'[s], 0, ZeroHandle)>>
            /\ getCheckInStats(s)'[1] = receipt'.ret]_vars

\* alice checked in on day 1, skipped day 2 and checked in twice on day 3
C23_Witness ==
    /\ checkInLog["alice"] = <<1, 3, 3>>
    /\ consecutiveCheckIns["alice"] = 1
    /\ receipt = Success(1, <<Event("CheckInRecorded", "alice", 1, 0, ZeroHandle)>>)

\* C26: a checkIn with a valid proof aborts in no reachable state, day 0
\* included: whenever the code evaluates currentDay - 1, lastCheckInDay is not
\* zero and below currentDay, so currentDay is at least 1.
C26_CheckInNeverAborts ==
    \A s \in Accounts :
        /\ checkInError(s, TRUE) = ""
        /\ (IsNewDay(lastCheckInDay[s], Today) /\ lastCheckInDay[s] # 0) =>
                (lastCheckInDay[s] < Today /\ Today - 1 >= 0)

\* two check-ins of alice have committed before the first day boundary
C26_Witness ==
    /\ blockTimestamp < DaySeconds
    /\ checkInLog["alice"] = <<0, 0>>
    /\ checkInError("alice", TRUE) = ""

\* C27: lastCheckInDay never decreases and never lies after the current
\* ledger day; consecutiveCheckIns is at least 1 once lastCheckInDay is not
\* zero; and a step leaves consecutiveCheckIns as it is, adds one, or sets it
\* to 1.
C27_TrackerStateMachine ==
    /\ [](\A s \in Accounts :
            /\ lastCheckInDay[s] * DaySeconds <= blockTimestamp
            /\ lastCheckInDay[s] # 0 => consecutiveCheckIns[s] >= 1)
    /\ [][\A s \in Accounts :
            /\ lastCheckInDay'[s] >= lastCheckInDay[s]
            /\ consecutiveCheckIns'[s] \in
                    {consecutiveCheckIns[s], consecutiveCheckIns[s] + 1, 1}]_vars

\* a streak of two (days 0 and 1) that the check-in of day 3 set back to 1
C27_Witness ==
    /\ checkInLog["alice"] = <<0, 1, 3>>
    /\ lastCheckInDay["alice"] = 3
    /\ consecutiveCheckIns["alice"] = 1

\* C28: a bucket is in dailyStudyDays exactly when its entry exists, every
\* listed bucket is a multiple of 86400, and after a state-changing checkIn
\* the bucket lastCheckInDay * 86400 is listed.
C28_ListMatchesEntries ==
    /\ [](\A s \in Accounts :
            /\ \A b \in Stamps : Listed(s, b) <=> dailyStudyData[s][b].exists
            /\ \A i \in DOMAIN dailyStudyDays[s] :
                    dailyStudyDays[s][i] % DaySeconds = 0)
    /\ [][\A s \in Accounts :
            (CheckInStep(s) /\ storage' # storage) =>
                \E i \in DOMAIN dailyStudyDays'[s] :
                    dailyStudyDays'[s][i] = lastCheckInDay'[s] * DaySeconds]_vars

\* alice checked in on day 1 and then recorded study data for a time in the
\* second half of day 0
C28_Witness ==
    /\ getStudyDays("alice") = <<DaySeconds, 0>>
    /\ lastCheckInDay["alice"] = 1
    /\ getStudyData("alice", HalfDay)[3]
    /\ ~getStudyData("alice", 2 * DaySeconds)[3]

Digit(d) ==
    CASE d = 0 -> "0" [] d = 1 -> "1" [] d = 2 -> "2" [] d = 3 -> "3" [] d = 4 -> "4"
      [] d = 5 -> "5" [] d = 6 -> "6" [] d = 7 -> "7" [] d = 8 -> "8" [] d = 9 -> "9"

RECURSIVE Decimal(_)
Decimal(n) == IF n < 10 THEN Digit(n) ELSE Decimal(n \div 10) \o Digit(n % 10)

Minted(k) == owners[k] # ZeroAddress

\* what tokenURI returns for a token that it accepts, and how the base URI
\* comes to its value
C24_URIOfBase ==
    /\ [](\A id \in SkillIds :
            tokenURIError(id) = "" =>
                tokenURI(id) =
                    IF baseTokenURI = "" THEN "" ELSE baseTokenURI \o Decimal(id))
    /\ [](\A sender \in Identities : setBaseURIError(sender) = "")
    /\ [][/\ \A u \in BaseURIs : setBaseURI(u) => baseTokenURI' = u
          /\ baseTokenURI' # baseTokenURI =>
                \/ \E u \in BaseURIs : setBaseURI(u)
                \/ generateSkillProofUnwind]_vars

\* C24 as stated: tokenURI(id) aborts exactly for the ids from the skill
\* counter on; for the others it returns "" when the base URI is empty and
\* otherwise the base URI followed by the decimal id; the base URI is the
\* value of the last setBaseURI, which rejects nobody.
C24_AbortsFromCounter ==
    /\ [](\A id \in SkillIds : tokenURIError(id) # "" <=> id >= skillCounter)
    /\ C24_URIOfBase

\* C24, amended: tokenURI(id) aborts exactly for the ids that have no owner;
\* between calls these are the ids from the skill counter on, while inside
\* the mint callback the id equal to the skill counter is minted already and
\* tokenURI returns for it.  The rest is as stated.
C24_AbortsForUnminted ==
    /\ [](\A id \in SkillIds :
            /\ tokenURIError(id) # "" <=> ~Minted(id)
            /\ callStack = <<>> => (Minted(id) <=> id < skillCounter)
            /\ callStack # <<>> => (Minted(id) <=> id <= skillCounter))
    /\ C24_URIOfBase

\* inside the callback of the mint of token 1, with a base URI set
C24_Witness ==
    /\ callStack # <<>>
    /\ skillCounter = 1
    /\ tokenURI(0) = "ipfs://b/0"
    /\ tokenURIError(1) = "" /\ tokenURI(1) = "ipfs://b/1"
    /\ tokenURIError(2) = "Nonexistent token"

Recorded(k) == {s \in Identities : skillProofs[s][k].exists}

\* C25: while onERC721Received of a generateSkillProof call runs, the token
\* of that call is minted, its proof record is not written, skillCounter is
\* not incremented, and every generateSkillProof call aborts; no skillId is
\* recorded for two identities, every mint is the mint of skillCounter, and
\* between calls the minted ids are exactly 0 .. skillCounter - 1.
C25_ReentrancySafe ==
    /\ [](/\ callStack # <<>> =>
                LET frame == callStack[Len(callStack)] IN
                /\ frame.skillId = skillCounter
                /\ Minted(frame.skillId)
                /\ Recorded(frame.skillId) = {}
                /\ \A s \in Identities, c \in CourseIds :
                        generateSkillProofError(s, c) # ""
          /\ \A k \in SkillIds : Cardinality(Recorded(k)) <= 1
          /\ callStack = <<>> => \A k \in SkillIds : Minted(k) <=> k < skillCounter)
    /\ [][\A k \in SkillIds :
            (~Minted(k) /\ owners'[k] # ZeroAddress) => k = skillCounter]_vars

\* the hook holds token 0 with its record and is inside the callback of the
\* mint of token 1, where a call of generateSkillProof is refused
C25_Witness ==
    /\ Len(callStack) = 1
    /\ callStack[1].student = "hook"
    /\ skillCounter = 1
    /\ Recorded(0) = {"hook"}
    /\ Minted(1) /\ Recorded(1) = {}
    /\ generateSkillProofError("hook", 0) = "ERC721InvalidSender"

C30_OneRecordPerSkillId ==
    \A k \in SkillIds :
        IF k < skillCounter
        THEN /\ Cardinality(Recorded(k)) = 1
             /\ \A s \in Recorded(k) :
                    /\ courseExists(skillProofs[s][k].courseId)
                    /\ hasScore[s][skillProofs[s][k].courseId]
                    /\ \A j \in 0..(k - 1) : \A r \in Recorded(j) :
                            skillProofs[r][j].timestamp <= skillProofs[s][k].timestamp
        ELSE Recorded(k) = {}

\* token 0 went to alice on the first day and token 1 to bob on the second
C30_Witness ==
    /\ callStack = <<>>
    /\ skillCounter = 2
    /\ Recorded(0) = {"alice"} /\ Recorded(1) = {"bob"}
    /\ skillProofs["alice"][0].timestamp < skillProofs["bob"][1].timestamp

=============================================================================
